---- MODULE Spec2Model ----
(***************************************************************************)
(* The QR code generator of src/main.py as a state machine.                *)
(*                                                                         *)
(* main() is a Streamlit script: it runs from top to bottom once per user  *)
(* interaction.  The state that survives between two runs is the widget    *)
(* state (the form fields and the settings widgets); everything else       *)
(* (data, settings, the generator, the image) is rebuilt by every run.     *)
(* One action of the model is one interaction followed by the whole run of *)
(* main() it triggers: a widget edit reruns main() with the button not     *)
(* pressed, Generate reruns it with the button pressed.                    *)
(*                                                                         *)
(* Strings the program builds are sequences of one-character strings, so   *)
(* that concatenation, prefixes and suffixes are computed, not assumed.    *)
(***************************************************************************)
EXTENDS Integers, Sequences, FiniteSets, TLC

\* ------------------------------------------------------------------ bounds

\* Data capacity (in characters) of the largest symbol at level L in the
\* model: a scaled-down stand-in for the encoder's version-40 capacity.
MaxVersionBytes == 24

\* ------------------------------------------------------- program constants

BoxSizeMin == 1
BoxSizeMax == 20
BoxSizeDefault == 10
BorderMin == 0
BorderMax == 10
BorderDefault == 4

\* ------------------------------------------------------------------ state

VARIABLES
    input_type,        \* st.radio "Input Type"
    url,               \* st.text_input "Enter URL"
    text,              \* st.text_area "Enter Text"
    email,             \* st.text_input "Email Address"
    subject,           \* st.text_input "Subject (Optional)"
    body,              \* st.text_input "Body (Optional)"
    phone,             \* st.text_input "Phone Number"
    ssid,              \* st.text_input "Network Name (SSID)"
    password,          \* st.text_input "Password"
    encryption,        \* st.selectbox "Encryption"
    fill_color,        \* st.color_picker "Fill Color"
    back_color,        \* st.color_picker "Background Color"
    box_size,          \* st.slider "Box Size"
    border,            \* st.slider "Border"
    error_correction,  \* st.selectbox "Error Correction"
    clicked,           \* the value st.button returned in the last run
    data,              \* the local `data` of the last run of main()
    screen,            \* what the last run rendered below the button, in order
    encoded,           \* the requests the last run sent to the qrcode library
    pinned             \* history: <<>> or one remembered Generate action

widgets == <<input_type, url, text, email, subject, body, phone, ssid,
             password, encryption>>
settingsWidgets == <<fill_color, back_color, box_size, border, error_correction>>
vars == <<input_type, url, text, email, subject, body, phone, ssid, password,
          encryption, fill_color, back_color, box_size, border,
          error_correction, clicked, data, screen, encoded, pinned>>

\* ------------------------------------------------------------ input values

InputTypes == {"URL", "Text", "Email", "Phone", "WiFi"}
Encryptions == {"WPA/WPA2", "WEP", "None"}
ErrorCorrections == {"L", "M", "Q", "H"}

Repeat(c, n) == [i \in 1..n |-> c]
\* longer than any symbol holds at any level
Long == Repeat("x", MaxVersionBytes + 1)
\* fits at level L only
Mid == Repeat("x", MaxVersionBytes - 1)

UrlValues == {<<>>, <<" ", "u", " ">>, Long}
TextValues == {<<>>, <<"h", "i">>, Long}
EmailValues == {<<>>, <<"a", "@", "b">>}
SubjectValues == {<<>>, <<"H", " ", "i">>}
BodyValues == {<<>>, <<"M", "&">>}
PhoneValues == {<<>>, <<"+", "1">>}
SsidValues == {<<>>, <<"H", ";">>}
PasswordValues == {<<>>, <<"p", ":">>}
FillColors == {"#000000", "#FF0000"}
BackColors == {"#FFFFFF", "#00FF00"}
\* positions a user may try to drag a slider to
BoxSizeTries == {0, 1, 10, 20, 21}
BorderTries == {-1, 0, 4, 10, 11}

\* the smaller input sets of the specification that remembers a Generate
HistValues == {<<>>, <<"h", "i">>, Mid, Long}
HistBoxSizes == {10, 20}

\* ----------------------------------------------------------- PayloadBuilder

mailto == <<"m", "a", "i", "l", "t", "o", ":">>
q_subject == <<"?", "s", "u", "b", "j", "e", "c", "t", "=">>
amp_body == <<"&", "b", "o", "d", "y", "=">>
q_body == <<"?", "b", "o", "d", "y", "=">>
tel == <<"t", "e", "l", ":">>
wifi_s == <<"W", "I", "F", "I", ":", "S", ":">>
semi_t == <<";", "T", ":">>
p_colon == <<"P", ":">>
semi == <<";">>

\* BuildEmail with a fault: the `elif body` branch appends with "&"
BuildEmailAmpBody(e, s, b) ==
    IF e /= <<>>
    THEN IF s /= <<>>
         THEN IF b /= <<>>
              THEN mailto \o e \o q_subject \o s \o amp_body \o b
              ELSE mailto \o e \o q_subject \o s
         ELSE IF b /= <<>>
              THEN mailto \o e \o amp_body \o b
              ELSE mailto \o e
    ELSE <<>>

\* main, the Email branch
BuildEmail(e, s, b) ==
    IF e /= <<>>
    THEN IF s /= <<>>
         THEN IF b /= <<>>
              THEN mailto \o e \o q_subject \o s \o amp_body \o b
              ELSE mailto \o e \o q_subject \o s
         ELSE IF b /= <<>>
              THEN mailto \o e \o q_body \o b
              ELSE mailto \o e
    ELSE <<>>

\* BuildPhone with a fault: the prefix is added to an empty number too
BuildPhoneAlways(p) == tel \o p

\* main, the Phone branch
BuildPhone(p) == IF p /= <<>> THEN tel \o p ELSE <<>>

\* main, the WiFi branch: encryption_map
encryption_map(enc) ==
    CASE enc = "WPA/WPA2" -> <<"W", "P", "A">>
      [] enc = "WEP" -> <<"W", "E", "P">>
      [] enc = "None" -> <<"n", "o", "p", "a", "s", "s">>

\* BuildWifi with a fault: the password is written whatever the encryption
BuildWifiAnyPassword(s, p, enc) ==
    IF s /= <<>>
    THEN wifi_s \o s \o semi_t \o encryption_map(enc) \o semi
         \o (IF p /= <<>> THEN p_colon \o p \o semi ELSE <<>>)
         \o semi
    ELSE <<>>

\* main, the WiFi branch
BuildWifi(s, p, enc) ==
    IF s /= <<>>
    THEN wifi_s \o s \o semi_t \o encryption_map(enc) \o semi
         \o (IF p /= <<>> /\ enc /= "None" THEN p_colon \o p \o semi ELSE <<>>)
         \o semi
    ELSE <<>>

\* str.strip() for blanks
Strip(s) ==
    LET first == IF \E i \in 1..Len(s) : s[i] /= " "
                 THEN CHOOSE i \in 1..Len(s) :
                          s[i] /= " " /\ \A j \in 1..(i - 1) : s[j] = " "
                 ELSE Len(s) + 1
        last == IF \E i \in 1..Len(s) : s[i] /= " "
                THEN CHOOSE i \in 1..Len(s) :
                         s[i] /= " " /\ \A j \in (i + 1)..Len(s) : s[j] = " "
                ELSE Len(s)
    IN SubSeq(s, first, last)

\* BuildData with a fault: the URL and the text are stripped of blanks
BuildDataStripped(form) ==
    CASE form.input_type = "URL" -> Strip(form.url)
      [] form.input_type = "Text" -> Strip(form.text)
      [] form.input_type = "Email" -> BuildEmail(form.email, form.subject, form.body)
      [] form.input_type = "Phone" -> BuildPhone(form.phone)
      [] form.input_type = "WiFi" -> BuildWifi(form.ssid, form.password, form.encryption)

\* main, the input section: the local `data` after the if/elif chain
BuildData(form) ==
    CASE form.input_type = "URL" -> form.url
      [] form.input_type = "Text" -> form.text
      [] form.input_type = "Email" -> BuildEmail(form.email, form.subject, form.body)
      [] form.input_type = "Phone" -> BuildPhone(form.phone)
      [] form.input_type = "WiFi" -> BuildWifi(form.ssid, form.password, form.encryption)

\* the widget state main() reads in the input section
Form ==
    [input_type |-> input_type, url |-> url, text |-> text, email |-> email,
     subject |-> subject, body |-> body, phone |-> phone, ssid |-> ssid,
     password |-> password, encryption |-> encryption]

\* ------------------------------------------------------------- QRSettings

\* QRSettings(...): the dataclass, a value object
QRSettings(fc, bc, bs, bo, ec) ==
    [fill_color |-> fc, back_color |-> bc, box_size |-> bs, border |-> bo,
     error_correction |-> ec]

\* QRSettings(): the dataclass defaults
QRSettingsDefault ==
    QRSettings("#000000", "#FFFFFF", BoxSizeDefault, BorderDefault, "H")

\* Optional[QRSettings]: <<>> is None, <<s>> is the settings s
NoSettings == <<>>
Some(s) == <<s>>

\* main, with col2: the settings object built from the settings widgets
Settings == QRSettings(fill_color, back_color, box_size, border, error_correction)

\* SliderAccepts with a fault: the slider has no range
SliderAcceptsAny(lo, hi, v) == TRUE

\* what st.slider(label, lo, hi, default) lets the user set
SliderAccepts(lo, hi, v) == lo <= v /\ v <= hi

\* -------------------------------------------------- the encoding collaborator

\* characters a symbol holds at a level of the qrcode library (scaled down,
\* in the library's order L > M > Q > H)
Capacity(level) ==
    CASE level = "ERROR_CORRECT_L" -> MaxVersionBytes
      [] level = "ERROR_CORRECT_M" -> MaxVersionBytes - 2
      [] level = "ERROR_CORRECT_Q" -> MaxVersionBytes - 4
      [] level = "ERROR_CORRECT_H" -> MaxVersionBytes - 6

\* qrcode.QRCode(...), add_data, make(fit=True), make_image, save as PNG: a
\* deterministic function of the six inputs, which fails when the data does not
\* fit the largest symbol at the requested level
Encode(req) ==
    IF Len(req.data) > Capacity(req.error_correction)
    THEN [ok |-> FALSE, message |-> "Code length overflow"]
    ELSE [ok |-> TRUE, img_bytes |-> [png |-> req]]

\* ---------------------------------------------------------- QRCodeGenerator

\* QRCodeGenerator.__init__: settings or QRSettings()
QRCodeGenerator(settings) ==
    [settings |-> IF settings = NoSettings THEN QRSettingsDefault ELSE settings[1]]

\* error_levels with a fault: the Q entry names the M constant
error_levelsQasM(key) ==
    CASE key = "L" -> "ERROR_CORRECT_L"
      [] key = "M" -> "ERROR_CORRECT_M"
      [] key = "Q" -> "ERROR_CORRECT_M"
      [] key = "H" -> "ERROR_CORRECT_H"
      [] OTHER -> "ERROR_CORRECT_H"

\* generate: error_levels.get(key, ERROR_CORRECT_H)
error_levels(key) ==
    CASE key = "L" -> "ERROR_CORRECT_L"
      [] key = "M" -> "ERROR_CORRECT_M"
      [] key = "Q" -> "ERROR_CORRECT_Q"
      [] key = "H" -> "ERROR_CORRECT_H"
      [] OTHER -> "ERROR_CORRECT_H"

\* QRCodeGenerator.generate: what it raises or returns, and the requests it
\* sent to the library on the way
generate(self, d) ==
    IF d = <<>>
    THEN [raised |-> TRUE, message |-> "Data cannot be empty", calls |-> <<>>]
    ELSE LET req == [data |-> d,
                     error_correction |-> error_levels(self.settings.error_correction),
                     box_size |-> self.settings.box_size,
                     border |-> self.settings.border,
                     fill_color |-> self.settings.fill_color,
                     back_color |-> self.settings.back_color]
             r == Encode(req)
         IN IF r.ok
            THEN [raised |-> FALSE, img_bytes |-> r.img_bytes, calls |-> <<req>>]
            ELSE [raised |-> TRUE, message |-> r.message, calls |-> <<req>>]

\* get_image_download_link: the anchor with the bytes embedded in base64
get_image_download_link(img_bytes, filename, label) ==
    [mime |-> "application/octet-stream", base64 |-> img_bytes,
     download |-> filename, label |-> label]

\* ------------------------------------------------------ the generation gate

Subheader == [kind |-> "subheader", body |-> "Your QR Code"]
ImageEl(img_bytes) == [kind |-> "image", img |-> img_bytes]
MarkdownEl(href) == [kind |-> "markdown", href |-> href]
ErrorEl(message) ==
    [kind |-> "error", prefix |-> "Error generating QR code: ", message |-> message]
WarningEl ==
    [kind |-> "warning", body |-> "Please enter some data to generate a QR code"]

\* TryBlock with a fault: the subheader is rendered before the generation
TryBlockEarlySubheader(d, settings) ==
    LET r == generate(QRCodeGenerator(Some(settings)), d)
    IN IF r.raised
       THEN [screen |-> <<Subheader, ErrorEl(r.message)>>, encoded |-> r.calls]
       ELSE [screen |-> <<Subheader, ImageEl(r.img_bytes),
                          MarkdownEl(get_image_download_link(
                              r.img_bytes, "qrcode.png", "Download QR Code"))>>,
             encoded |-> r.calls]

\* TryBlock with a fault: a press right after a press is taken for a repeat
\* and generates nothing
TryBlockSkipRepeat(d, settings) ==
    LET r == generate(QRCodeGenerator(Some(settings)), d)
    IN IF clicked
       THEN [screen |-> <<>>, encoded |-> <<>>]
       ELSE IF r.raised
            THEN [screen |-> <<ErrorEl(r.message)>>, encoded |-> r.calls]
            ELSE [screen |-> <<Subheader, ImageEl(r.img_bytes),
                               MarkdownEl(get_image_download_link(
                                   r.img_bytes, "qrcode.png", "Download QR Code"))>>,
                  encoded |-> r.calls]

\* main, the try/except around the generation
TryBlock(d, settings) ==
    LET r == generate(QRCodeGenerator(Some(settings)), d)
    IN IF r.raised
       THEN [screen |-> <<ErrorEl(r.message)>>, encoded |-> r.calls]
       ELSE [screen |-> <<Subheader, ImageEl(r.img_bytes),
                          MarkdownEl(get_image_download_link(
                              r.img_bytes, "qrcode.png", "Download QR Code"))>>,
             encoded |-> r.calls]

\* Gate with a fault: no `if data` before the generation
GateNoDataCheck(button, d, settings) ==
    IF button
    THEN TryBlock(d, settings)
    ELSE [screen |-> <<>>, encoded |-> <<>>]

\* Gate with a fault: the generation is not under `if st.button(...)`
GateEveryRun(button, d, settings) ==
    IF d /= <<>>
    THEN TryBlock(d, settings)
    ELSE IF button
         THEN [screen |-> <<WarningEl>>, encoded |-> <<>>]
         ELSE [screen |-> <<>>, encoded |-> <<>>]

\* main, from `if st.button(...)` to the end
Gate(button, d, settings) ==
    IF button
    THEN IF d /= <<>>
         THEN TryBlock(d, settings)
         ELSE [screen |-> <<WarningEl>>, encoded |-> <<>>]
    ELSE [screen |-> <<>>, encoded |-> <<>>]

\* one run of main() over the widget state of the next state
Main(button) ==
    LET d == BuildData(Form')
        out == Gate(button, d, Settings')
    IN /\ clicked' = button
       /\ data' = d
       /\ screen' = out.screen
       /\ encoded' = out.encoded

\* ------------------------------------------------------------------- Init

\* the first page load: every widget at its default, the button not pressed
Init ==
    /\ input_type = "URL"
    /\ url = <<>>
    /\ text = <<>>
    /\ email = <<>>
    /\ subject = <<>>
    /\ body = <<>>
    /\ phone = <<>>
    /\ ssid = <<>>
    /\ password = <<>>
    /\ encryption = "WPA/WPA2"
    /\ fill_color = "#000000"
    /\ back_color = "#FFFFFF"
    /\ box_size = BoxSizeDefault
    /\ border = BorderDefault
    /\ error_correction = "H"
    /\ clicked = FALSE
    /\ data = <<>>
    /\ screen = <<>>
    /\ encoded = <<>>
    /\ pinned = <<>>

\* ----------------------------------------------------------------- actions

\* The radio is changed: the widgets of the other branches are no longer
\* created by the run, so the branch chosen starts from its defaults.
SetInputType(t) ==
    /\ t /= input_type
    /\ input_type' = t
    /\ url' = <<>>
    /\ text' = <<>>
    /\ email' = <<>>
    /\ subject' = <<>>
    /\ body' = <<>>
    /\ phone' = <<>>
    /\ ssid' = <<>>
    /\ password' = <<>>
    /\ encryption' = "WPA/WPA2"
    /\ UNCHANGED <<settingsWidgets, pinned>>
    /\ Main(FALSE)

SetUrl(v) ==
    /\ input_type = "URL"
    /\ v /= url
    /\ url' = v
    /\ UNCHANGED <<input_type, text, email, subject, body, phone, ssid,
                   password, encryption, settingsWidgets, pinned>>
    /\ Main(FALSE)

SetText(v) ==
    /\ input_type = "Text"
    /\ v /= text
    /\ text' = v
    /\ UNCHANGED <<input_type, url, email, subject, body, phone, ssid,
                   password, encryption, settingsWidgets, pinned>>
    /\ Main(FALSE)

SetEmail(v) ==
    /\ input_type = "Email"
    /\ v /= email
    /\ email' = v
    /\ UNCHANGED <<input_type, url, text, subject, body, phone, ssid,
                   password, encryption, settingsWidgets, pinned>>
    /\ Main(FALSE)

SetSubject(v) ==
    /\ input_type = "Email"
    /\ v /= subject
    /\ subject' = v
    /\ UNCHANGED <<input_type, url, text, email, body, phone, ssid,
                   password, encryption, settingsWidgets, pinned>>
    /\ Main(FALSE)

SetBody(v) ==
    /\ input_type = "Email"
    /\ v /= body
    /\ body' = v
    /\ UNCHANGED <<input_type, url, text, email, subject, phone, ssid,
                   password, encryption, settingsWidgets, pinned>>
    /\ Main(FALSE)

SetPhone(v) ==
    /\ input_type = "Phone"
    /\ v /= phone
    /\ phone' = v
    /\ UNCHANGED <<input_type, url, text, email, subject, body, ssid,
                   password, encryption, settingsWidgets, pinned>>
    /\ Main(FALSE)

SetSsid(v) ==
    /\ input_type = "WiFi"
    /\ v /= ssid
    /\ ssid' = v
    /\ UNCHANGED <<input_type, url, text, email, subject, body, phone,
                   password, encryption, settingsWidgets, pinned>>
    /\ Main(FALSE)

SetPassword(v) ==
    /\ input_type = "WiFi"
    /\ v /= password
    /\ password' = v
    /\ UNCHANGED <<input_type, url, text, email, subject, body, phone, ssid,
                   encryption, settingsWidgets, pinned>>
    /\ Main(FALSE)

SetEncryption(v) ==
    /\ input_type = "WiFi"
    /\ v /= encryption
    /\ encryption' = v
    /\ UNCHANGED <<input_type, url, text, email, subject, body, phone, ssid,
                   password, settingsWidgets, pinned>>
    /\ Main(FALSE)

SetFillColor(v) ==
    /\ v /= fill_color
    /\ fill_color' = v
    /\ UNCHANGED <<widgets, back_color, box_size, border, error_correction, pinned>>
    /\ Main(FALSE)

SetBackColor(v) ==
    /\ v /= back_color
    /\ back_color' = v
    /\ UNCHANGED <<widgets, fill_color, box_size, border, error_correction, pinned>>
    /\ Main(FALSE)

SetBoxSize(v) ==
    /\ SliderAccepts(BoxSizeMin, BoxSizeMax, v)
    /\ v /= box_size
    /\ box_size' = v
    /\ UNCHANGED <<widgets, fill_color, back_color, border, error_correction, pinned>>
    /\ Main(FALSE)

SetBorder(v) ==
    /\ SliderAccepts(BorderMin, BorderMax, v)
    /\ v /= border
    /\ border' = v
    /\ UNCHANGED <<widgets, fill_color, back_color, box_size, error_correction, pinned>>
    /\ Main(FALSE)

SetErrorCorrection(v) ==
    /\ v /= error_correction
    /\ error_correction' = v
    /\ UNCHANGED <<widgets, fill_color, back_color, box_size, border, pinned>>
    /\ Main(FALSE)

\* the Generate button is pressed: the widgets keep their values
Generate ==
    /\ UNCHANGED <<widgets, settingsWidgets, pinned>>
    /\ Main(TRUE)

\* history only: remember the Generate action whose result is on the screen
Pin ==
    /\ clicked
    /\ pinned = <<>>
    /\ pinned' = <<[data |-> data, settings |-> Settings, screen |-> screen]>>
    /\ UNCHANGED <<widgets, settingsWidgets, clicked, data, screen, encoded>>

Next ==
    \/ \E t \in InputTypes : SetInputType(t)
    \/ \E v \in UrlValues : SetUrl(v)
    \/ \E v \in TextValues : SetText(v)
    \/ \E v \in EmailValues : SetEmail(v)
    \/ \E v \in SubjectValues : SetSubject(v)
    \/ \E v \in BodyValues : SetBody(v)
    \/ \E v \in PhoneValues : SetPhone(v)
    \/ \E v \in SsidValues : SetSsid(v)
    \/ \E v \in PasswordValues : SetPassword(v)
    \/ \E v \in Encryptions : SetEncryption(v)
    \/ \E v \in FillColors : SetFillColor(v)
    \/ \E v \in BackColors : SetBackColor(v)
    \/ \E v \in BoxSizeTries : SetBoxSize(v)
    \/ \E v \in BorderTries : SetBorder(v)
    \/ \E v \in ErrorCorrections : SetErrorCorrection(v)
    \/ Generate

Spec == Init /\ [][Next]_vars

\* The same program over smaller input sets, with one earlier Generate action
\* remembered for comparison with the later ones.
NextHist ==
    \/ \E t \in InputTypes : SetInputType(t)
    \/ \E v \in HistValues : SetUrl(v)
    \/ \E v \in HistValues : SetText(v)
    \/ \E v \in HistBoxSizes : SetBoxSize(v)
    \/ \E v \in ErrorCorrections : SetErrorCorrection(v)
    \/ Generate
    \/ Pin

SpecHist == Init /\ [][NextHist]_vars

\* ------------------------------------------------------------- properties

\* what is on the screen, by kind
Kinds == [i \in 1..Len(screen) |-> screen[i].kind]
Shows(kind) == \E i \in 1..Len(screen) : screen[i].kind = kind

\* C1: for an Email intent the payload is empty when the address is empty,
\* else "mailto:" + address, then "?subject=" + subject when the subject is
\* non-empty, then "&body=" + body when both are non-empty, or "?body=" + body
\* when only the body is non-empty; nothing else, no character changed.
C1_EmailPayload ==
    input_type = "Email" =>
        data = IF email = <<>>
               THEN <<>>
               ELSE <<"m", "a", "i", "l", "t", "o", ":">> \o email
                    \o (IF subject /= <<>>
                        THEN <<"?", "s", "u", "b", "j", "e", "c", "t", "=">> \o subject
                        ELSE <<>>)
                    \o (IF subject /= <<>> /\ body /= <<>>
                        THEN <<"&", "b", "o", "d", "y", "=">> \o body
                        ELSE <<>>)
                    \o (IF subject = <<>> /\ body /= <<>>
                        THEN <<"?", "b", "o", "d", "y", "=">> \o body
                        ELSE <<>>)

\* an address and a body without a subject: "mailto:a@b?body=M&"
C1_Witness ==
    /\ input_type = "Email"
    /\ email = <<"a", "@", "b">>
    /\ subject = <<>>
    /\ body = <<"M", "&">>
    /\ data = <<"m", "a", "i", "l", "t", "o", ":", "a", "@", "b",
                "?", "b", "o", "d", "y", "=", "M", "&">>

\* C2: for a WiFi intent the payload is empty when the SSID is empty, else
\* "WIFI:S:" + ssid + ";T:" + T + ";" (T = WPA, WEP or nopass), then
\* "P:" + password + ";" exactly when the encryption is not None and the
\* password is non-empty, then a final ";"; with encryption None the payload
\* does not depend on the password, and a non-empty payload ends in ";;".
C2_WifiPayload ==
    input_type = "WiFi" =>
        LET T == CASE encryption = "WPA/WPA2" -> <<"W", "P", "A">>
                   [] encryption = "WEP" -> <<"W", "E", "P">>
                   [] encryption = "None" -> <<"n", "o", "p", "a", "s", "s">>
            head == <<"W", "I", "F", "I", ":", "S", ":">> \o ssid
                    \o <<";", "T", ":">> \o T \o <<";">>
        IN /\ ssid = <<>> => data = <<>>
           /\ ssid /= <<>> /\ encryption /= "None" /\ password /= <<>> =>
                  data = head \o <<"P", ":">> \o password \o <<";">> \o <<";">>
           /\ ssid /= <<>> /\ ~(encryption /= "None" /\ password /= <<>>) =>
                  data = head \o <<";">>
           /\ encryption = "None" =>
                  \A p \in PasswordValues : BuildWifi(ssid, p, "None") = data
           /\ data /= <<>> =>
                  /\ Len(data) >= 2
                  /\ data[Len(data)] = ";"
                  /\ data[Len(data) - 1] = ";"

\* a password typed in with encryption None: "WIFI:S:H;;T:nopass;;"
C2_Witness ==
    /\ input_type = "WiFi"
    /\ ssid = <<"H", ";">>
    /\ password = <<"p", ":">>
    /\ encryption = "None"
    /\ data = <<"W", "I", "F", "I", ":", "S", ":", "H", ";", ";", "T", ":",
                "n", "o", "p", "a", "s", "s", ";", ";">>

\* the identifying field of the active intent is empty
IdentifyingFieldEmpty ==
    CASE input_type = "URL" -> url = <<>>
      [] input_type = "Text" -> text = <<>>
      [] input_type = "Email" -> email = <<>>
      [] input_type = "Phone" -> phone = <<>>
      [] input_type = "WiFi" -> ssid = <<>>

\* C3: a Generate action taken while the built payload is empty (the
\* identifying field of the active intent is empty) never invokes the encoder,
\* and its outcome is the "no data" warning: no error, no image, no link.
C3_EmptyPayloadWarns ==
    clicked /\ (data = <<>> \/ IdentifyingFieldEmpty) =>
        /\ encoded = <<>>
        /\ Kinds = <<"warning">>

\* Generate pressed on an Email form with a subject and a body but no address
C3_Witness ==
    /\ clicked
    /\ input_type = "Email"
    /\ email = <<>>
    /\ subject /= <<>>
    /\ body /= <<>>
    /\ Kinds = <<"warning">>

\* a Generate action is handled as the program handles any: the warning on an
\* empty payload, else one request, and the error with the encoder's message
\* or the subheader, the image and the link, as the encoder decides
HandledNormally ==
    \/ data = <<>> /\ encoded = <<>> /\ Kinds = <<"warning">>
    \/ /\ data /= <<>>
       /\ Len(encoded) = 1
       /\ encoded[1].data = data
       /\ \/ /\ ~Encode(encoded[1]).ok
             /\ Kinds = <<"error">>
             /\ screen[1].message = Encode(encoded[1]).message
          \/ /\ Encode(encoded[1]).ok
             /\ Kinds = <<"subheader", "image", "markdown">>
             /\ screen[2].img = Encode(encoded[1]).img_bytes
             /\ screen[3].href.base64 = screen[2].img

\* C4: when the encoder fails during a Generate action with a non-empty
\* payload, the outcome is exactly one error message carrying the encoder's
\* message, with no image and no link; and a Generate action that comes after
\* a failed one is handled normally.
C4_FailureCaught ==
    /\ clicked /\ encoded /= <<>> /\ ~Encode(encoded[1]).ok =>
           /\ Len(screen) = 1
           /\ screen[1].kind = "error"
           /\ screen[1].message = Encode(encoded[1]).message
           /\ ~Shows("image")
           /\ ~Shows("markdown")
           /\ ~Shows("subheader")
    /\ clicked /\ pinned /= <<>> /\ pinned[1].screen[1].kind = "error" =>
           HandledNormally

\* a failed Generate action, and later one that shows an image
C4_Witness ==
    /\ pinned /= <<>>
    /\ pinned[1].screen[1].kind = "error"
    /\ clicked
    /\ Shows("image")

\* C5: for a Phone intent the payload is "tel:" + number when the number is
\* non-empty and the empty string when it is empty; the number is unchanged.
C5_PhonePayload ==
    input_type = "Phone" =>
        data = IF phone = <<>> THEN <<>> ELSE <<"t", "e", "l", ":">> \o phone

\* a number with a "+" reaches the encoder as "tel:+1"
C5_Witness ==
    /\ input_type = "Phone"
    /\ phone = <<"+", "1">>
    /\ encoded /= <<>>
    /\ encoded[1].data = <<"t", "e", "l", ":", "+", "1">>

\* C6: for a Url intent and for a Text intent the payload is the entered value
\* verbatim, the empty string included, and the payload handed to the encoder
\* on Generate is that same string.
C6_Verbatim ==
    /\ input_type = "URL" => data = url
    /\ input_type = "Text" => data = text
    /\ input_type = "URL" /\ encoded /= <<>> => encoded[1].data = url
    /\ input_type = "Text" /\ encoded /= <<>> => encoded[1].data = text

\* a URL with a leading and a trailing blank reaches the encoder as typed
C6_Witness ==
    /\ input_type = "URL"
    /\ url = <<" ", "u", " ">>
    /\ encoded /= <<>>
    /\ encoded[1].data = <<" ", "u", " ">>

\* the library's level that corresponds to a settings letter
LevelOf(letter) ==
    CASE letter = "L" -> "ERROR_CORRECT_L"
      [] letter = "M" -> "ERROR_CORRECT_M"
      [] letter = "Q" -> "ERROR_CORRECT_Q"
      [] letter = "H" -> "ERROR_CORRECT_H"

\* C7: every request sent to the encoder carries the payload as built, the box
\* size, border, fill colour and background colour of the settings unchanged,
\* and the level of the settings' letter; a generator given no settings sends
\* black on white, box size 10, border 4, level H.
C7_RequestCarriesSettings ==
    /\ encoded /= <<>> =>
           encoded[1] = [data |-> data,
                         error_correction |-> LevelOf(error_correction),
                         box_size |-> box_size,
                         border |-> border,
                         fill_color |-> fill_color,
                         back_color |-> back_color]
    /\ data /= <<>> =>
           generate(QRCodeGenerator(NoSettings), data).calls =
               <<[data |-> data,
                  error_correction |-> "ERROR_CORRECT_H",
                  box_size |-> 10,
                  border |-> 4,
                  fill_color |-> "#000000",
                  back_color |-> "#FFFFFF"]>>

\* a request with no setting at its default
C7_Witness ==
    /\ clicked
    /\ encoded /= <<>>
    /\ encoded[1].error_correction = "ERROR_CORRECT_Q"
    /\ encoded[1].box_size = 20
    /\ encoded[1].border = 0
    /\ encoded[1].fill_color = "#FF0000"
    /\ encoded[1].back_color = "#00FF00"

\* C8: the encoder is invoked only by a Generate action and at most once per
\* Generate action: a run that an edit triggers sends nothing, and a failed
\* request is not sent again.
C8_OnlyOnGenerate ==
    /\ Len(encoded) <= 1
    /\ encoded /= <<>> => clicked

\* a Generate action whose single request failed
C8_Witness ==
    /\ clicked
    /\ Len(encoded) = 1
    /\ ~Encode(encoded[1]).ok
    /\ Kinds = <<"error">>

C10_SettingsInRange ==
    /\ \A i \in 1..Len(encoded) :
           /\ encoded[i].box_size \in 1..20
           /\ encoded[i].border \in 0..10
           /\ encoded[i].error_correction \in
                  {"ERROR_CORRECT_L", "ERROR_CORRECT_M",
                   "ERROR_CORRECT_Q", "ERROR_CORRECT_H"}
    /\ box_size \in 1..20
    /\ border \in 0..10
    /\ error_correction \in {"L", "M", "Q", "H"}

\* a request at the upper end of the box size and the lower end of the border
C10_Witness ==
    /\ encoded /= <<>>
    /\ encoded[1].box_size = 20
    /\ encoded[1].border = 0

====
